---- MODULE Spec2Model ----
(***************************************************************************)
(* Theme synchronisation of laurin-build: the theme client of              *)
(* app/static/js/main/user_search.js (push subscription with fallback to   *)
(* polling) and the admin theme switcher of                                *)
(* app/static/js/main/theme_switcher.js, run against a theme publisher     *)
(* that owns a theme name and a version counter.  Further parts, each with *)
(* a specification of its own: the service worker that caches static       *)
(* assets, the order page (BeverageConsumption), the PIN overlay and the   *)
(* deployment scripts.                                                     *)
(***************************************************************************)
EXTENDS Integers, Sequences, FiniteSets, Bags, TLC

VARIABLES
    page,              \* "loading" | "ready" | "unloading" (a reload was requested)
    currentTheme,      \* user_search.js:143
    currentVersion,    \* user_search.js:144
    initialized,       \* user_search.js:205, closure of initSSE
    bodyTheme,         \* document.body[data-theme], the theme shown on the page
    es,                \* the EventSource: "none" | "open" | "closed"
    pollTimer,         \* TRUE when the setInterval of initPolling is running
    sinceTimer,        \* ms since the poll timer was started or last fired
    sinceLastSet,      \* Date.now() - window.__LAST_THEME_SET, NoStamp when unset
    sinceSelect,       \* history: ms since the last selectTheme call, while a POST is out
    modalOpen,         \* the theme switcher modal is shown
    sseQueue,          \* 'theme' events sent by the server, not yet dispatched
    pollReqs,          \* GET /api/get-theme requests the server has not answered
    pollResps,         \* bag of GET responses not yet handled by the client
    postReqs,          \* bag of POST /api/set-theme requests not yet answered
    postResps,         \* bag of POST responses not yet handled by the client
    serverTheme,       \* the publisher's theme name
    serverVersion,     \* the publisher's version counter
    supplied,          \* history: versions the server put in a message or response
    gotMessage,        \* history: a valid theme message was handled since page load
    gotPoll,           \* history: a valid poll response was handled since page load
    gotLocal,          \* history: a set-theme success was applied since page load
    ev,                \* the handler that ran in the last step, with its pre-state
    \* the service worker and the documents it serves
    swInstalled,       \* the service worker is installed and activated
    swControls,        \* the service worker controls the current document
    swCache,           \* cache 'static-v1': url -> server version of the stored copy
    loaded,            \* url -> server version of the copy the document got
    reloadFor,         \* version whose bump made the theme client reload into this page
    \* the order page (BeverageConsumption)
    order,             \* this.order: beverage -> quantity
    disabled,          \* beverage -> disabled flag of its increase and decrease button
    origDisabled,      \* beverage -> increase button carries data-originally-disabled
    updated,           \* beverage -> updateQuantity ran for it at least once
    timers,            \* pending debounce timers
    modalShown,        \* the confirmation modal is open
    confirmDisabled,   \* confirmOrderBtn.disabled
    nConf,             \* confirmOrder calls so far
    confState,         \* confirmation -> "none", "waiting", "failed", "succeeded"
    addReqs,              \* /add_consumption requests in flight
    accepted,          \* beverage -> number of requests the server accepted
    message,           \* the alert on the page: "none", "success", "danger"
    redirect,          \* "none", "scheduled" (1500 ms timer), "left" (location is '/')
    ordEv,             \* the handler that ran in the last step, with its pre-state
    \* the user list with PinAuth, and the entries page with PinManagement
    location,          \* "index" (user list) or "entries"
    pageUser,          \* the user whose entries page is shown
    serverPin,         \* server: user -> PIN, NoPin for a user without one
    verified,          \* server: users whose PIN a /verify_pin request confirmed
    pinBypass,         \* server: admin_bypass or bypass_pin_for_dev() is on
    overlay,           \* pinOverlay is displayed
    currentUser,       \* PinAuth.currentUser
    pinInput,          \* pinInput.value
    pinError,          \* the error shown in pinError, "none" if hidden
    submitDisabled,    \* pinSubmit.disabled (PinManagement)
    checkReqs,         \* /check_user_pin requests in flight
    verifyReqs,        \* /verify_pin requests in flight
    createReqs,        \* /create_user_pin requests in flight
    pinEv,             \* the handler that ran in the last step, with its pre-state
    \* the deployment and rollback scripts
    script,            \* the script that runs or ran last, "none" before the first
    pc,                \* the position of the script in its steps
    failedAt,          \* the step at which the script exited with an error, or "none"
    arg,               \* $1 of the script
    now,               \* the clock, in seconds
    runStamp,          \* TIMESTAMP of the run
    files,             \* the files in the backup directories
    services,          \* the Docker services: "up", "db" or "down"
    app,               \* the application directory: "old", "new", "partial", "restored"
    printed,           \* backup names that finished deployments printed for rollback
    checked,           \* this run passed its pre-deployment checks
    dbOk,              \* this run created its database backup
    appOk,             \* this run created its application backup
    touched,           \* this run stopped services or wrote to the application directory
    \* the admin session monitor (AdminSessionManager); times in seconds
    adminPage,         \* the page is an admin page (port 5001 or 'admin' in the host name)
    sinceActivity,     \* Date.now() - this.lastActivity
    nextCheck,         \* time until the setInterval of startSessionMonitoring fires
    warningShown,      \* this.warningShown
    warningModal,      \* the session warning modal is on the page
    removeIn,          \* time until the warning's removal timer fires
    timeoutModal,      \* the session expired modal is on the page
    redirectIn,        \* time until the redirect timer of handleSessionTimeout fires
    expiredIdle,       \* history: the inactivity the check measured that expired the session
    admEv              \* the handler that ran in the last step

themeVars == <<page, currentTheme, currentVersion, initialized, bodyTheme, es, pollTimer,
               sinceTimer, sinceLastSet, sinceSelect, modalOpen, sseQueue, pollReqs,
               pollResps, postReqs, postResps, serverTheme, serverVersion, supplied,
               gotMessage, gotPoll, gotLocal, ev>>

swVars == <<swInstalled, swControls, swCache, loaded, reloadFor>>

ordVars == <<order, disabled, origDisabled, updated, timers, modalShown, confirmDisabled,
             nConf, confState, addReqs, accepted, message, redirect, ordEv>>

pinVars == <<location, pageUser, serverPin, verified, pinBypass, overlay, currentUser, pinInput,
             pinError, submitDisabled, checkReqs, verifyReqs, createReqs, pinEv>>

depVars == <<script, pc, failedAt, arg, now, runStamp, files, services, app, printed,
             checked, dbOk, appOk, touched>>

admVars == <<adminPage, sinceActivity, nextCheck, warningShown, warningModal, removeIn,
             timeoutModal, redirectIn, expiredIdle, admEv>>

vars == <<themeVars, swVars, ordVars, pinVars, depVars, admVars>>

\* the variables of the parts the theme client does not touch
elsewhere == <<swVars, ordVars, pinVars, depVars, admVars>>

\* the variables of the parts the service worker and its documents do not touch
swElsewhere == <<ordVars, pinVars, depVars, admVars>>

\* the variables of the parts the order page does not touch
ordElsewhere == <<themeVars, swVars, pinVars, depVars, admVars>>

\* the variables of the parts the PIN overlay does not touch
pinElsewhere == <<themeVars, swVars, ordVars, depVars, admVars>>

\* the variables of the parts the scripts do not touch
depElsewhere == <<themeVars, swVars, ordVars, pinVars, admVars>>

\* the variables of the parts the admin session monitor does not touch
admElsewhere == <<themeVars, swVars, ordVars, pinVars, depVars>>

----------------------------------------------------------------------------
(* Bounds of the model *)
MaxIdle == 700       \* seconds a page without session monitor is followed
MaxStamp == 2
MaxPinReqs == 1
MaxQty == 2
MaxTimers == 2
MaxConfirms == 2
MaxVersion == 3      \* the server's version counter stops here
MaxQueue == 1        \* push events in flight
MaxInflight == 1     \* GET requests and responses in flight
MaxPosts == 1        \* POST requests and responses in flight

(* Program constants *)
POLL_INTERVAL == 4000
GRACE_MS == 500

Themes == {"coffee", "winter"}
NoTheme == "null"        \* JavaScript null / attribute not set
NoVersion == -1          \* JavaScript null / undefined
NoStamp == -1            \* window.__LAST_THEME_SET undefined
DateNowVersion == -2     \* Date.now().toString(): a version made by the client

Min(a, b) == IF a < b THEN a ELSE b

Versions == 0..MaxVersion
NoMsg == [kind |-> "none", theme |-> NoTheme, version |-> NoVersion]
ThemeMsg(t, v) == [kind |-> "theme", theme |-> t, version |-> v]
BadMsg == [kind |-> "bad", theme |-> NoTheme, version |-> NoVersion]
Resp(k, t, v) == [kind |-> k, theme |-> t, version |-> v]

InFlight(bag) == BagCardinality(bag)
Put(bag, x) == bag (+) SetToBag({x})
Take(bag, x) == bag (-) SetToBag({x})

----------------------------------------------------------------------------
(* The client's module state as a record, so that handlers are functions *)
Client == [theme |-> currentTheme, version |-> currentVersion, shown |-> bodyTheme,
           init |-> initialized, reload |-> FALSE]

\* applyTheme(theme): falsy theme is ignored, else the body attribute is set
applyTheme(c, theme) ==
    IF theme = NoTheme THEN c ELSE [c EXCEPT !.shown = theme]

\* window.__LAST_THEME_SET && (Date.now() - window.__LAST_THEME_SET < 500)
justChanged(age) == age # NoStamp /\ age < GRACE_MS

hardReloadArmed == TRUE

\* fetchTheme without the currentVersion === null branch
fetchThemeData_NoFirstBranch(c, data) ==
    IF data.version # c.version
    THEN [applyTheme([c EXCEPT !.version = data.version, !.theme = data.theme], data.theme)
            EXCEPT !.reload = hardReloadArmed]
    ELSE IF data.theme # c.theme
    THEN applyTheme([c EXCEPT !.theme = data.theme], data.theme)
    ELSE c

\* fetchTheme with location.reload() after the if instead of inside it
fetchThemeData_ReloadAfterIf(c, data) ==
    IF c.version = NoVersion
    THEN applyTheme([c EXCEPT !.version = data.version, !.theme = data.theme], data.theme)
    ELSE IF data.version # c.version
    THEN [applyTheme([c EXCEPT !.version = data.version, !.theme = data.theme], data.theme)
            EXCEPT !.reload = hardReloadArmed]
    ELSE IF data.theme # c.theme
    THEN [applyTheme([c EXCEPT !.theme = data.theme], data.theme)
            EXCEPT !.reload = hardReloadArmed]
    ELSE [c EXCEPT !.reload = hardReloadArmed]

\* the .then(data => ...) of fetchTheme, for a parsed body with success true
fetchThemeData(c, data) ==
    IF c.version = NoVersion
    THEN applyTheme([c EXCEPT !.version = data.version, !.theme = data.theme], data.theme)
    ELSE IF data.version # c.version
    THEN [applyTheme([c EXCEPT !.version = data.version, !.theme = data.theme], data.theme)
            EXCEPT !.reload = hardReloadArmed]
    ELSE IF data.theme # c.theme
    THEN applyTheme([c EXCEPT !.theme = data.theme], data.theme)
    ELSE c

\* the listener of initSSE without its else-if(data.theme !== currentTheme) branch
sseThemeData_NoThemeBranch(c, data, age) ==
    IF ~c.init
    THEN [applyTheme([c EXCEPT !.version = data.version, !.theme = data.theme], data.theme)
            EXCEPT !.init = TRUE]
    ELSE IF data.version # c.version
    THEN [applyTheme([c EXCEPT !.version = data.version, !.theme = data.theme], data.theme)
            EXCEPT !.reload = ~justChanged(age)]
    ELSE c

\* the 'theme' listener of initSSE, for a payload that JSON.parse accepted
sseThemeData(c, data, age) ==
    IF ~c.init
    THEN [applyTheme([c EXCEPT !.version = data.version, !.theme = data.theme], data.theme)
            EXCEPT !.init = TRUE]
    ELSE IF data.version # c.version
    THEN [applyTheme([c EXCEPT !.version = data.version, !.theme = data.theme], data.theme)
            EXCEPT !.reload = ~justChanged(age)]
    ELSE IF data.theme # c.theme
    THEN applyTheme([c EXCEPT !.theme = data.theme], data.theme)
    ELSE c

\* JavaScript truthiness of a version: 0, null and undefined are falsy
Truthy(v) == v # NoVersion /\ v # 0

\* __setLocalTheme with the test on version inverted
setLocalTheme_Inverted(c, theme, version) ==
    IF ~Truthy(version)
    THEN [applyTheme(c, theme) EXCEPT !.version = version]
    ELSE [applyTheme(c, theme) EXCEPT !.version = DateNowVersion, !.reload = TRUE]

\* window.__setLocalTheme(theme, version); the else branch navigates
setLocalTheme(c, theme, version) ==
    IF Truthy(version)
    THEN [applyTheme(c, theme) EXCEPT !.version = version]
    ELSE [applyTheme(c, theme) EXCEPT !.version = DateNowVersion, !.reload = TRUE]

----------------------------------------------------------------------------
Pre == [theme |-> currentTheme, version |-> currentVersion, shown |-> bodyTheme,
        init |-> initialized, age |-> sinceLastSet, es |-> es, timer |-> pollTimer,
        sinceTimer |-> sinceTimer, reqs |-> pollReqs, modal |-> modalOpen,
        gotMessage |-> gotMessage, gotPoll |-> gotPoll, gotLocal |-> gotLocal]

Event(kind, msg, reload, alert) ==
    [kind |-> kind, msg |-> msg, pre |-> Pre, reload |-> reload, alert |-> alert]

NoEvent ==
    [kind |-> "none", msg |-> NoMsg,
     pre |-> [theme |-> NoTheme, version |-> NoVersion, shown |-> NoTheme,
              init |-> FALSE, age |-> NoStamp, es |-> "none", timer |-> FALSE,
              sinceTimer |-> 0, reqs |-> 0, modal |-> FALSE, gotMessage |-> FALSE,
              gotPoll |-> FALSE, gotLocal |-> FALSE],
     reload |-> FALSE, alert |-> FALSE]

\* handlers run on a document that has not asked to be replaced
Running == page = "ready"

\* the client state after a handler returned c
Commit(c) ==
    /\ currentTheme' = c.theme
    /\ currentVersion' = c.version
    /\ bodyTheme' = c.shown
    /\ initialized' = c.init
    /\ page' = IF c.reload THEN "unloading" ELSE page

Urls == {"/static/css/theme.css", "/static/js/main.js", "/"}

\* url.pathname.startsWith('/static/')
IsStatic(u) == u \in {"/static/css/theme.css", "/static/js/main.js"}

\* no service worker, nothing cached, nothing requested
SwIdle ==
    /\ swInstalled = FALSE
    /\ swControls = FALSE
    /\ swCache = [u \in Urls |-> NoVersion]
    /\ loaded = [u \in Urls |-> NoVersion]
    /\ reloadFor = NoVersion

Bevs == {"b1", "b2"}

\* the beverages in the iteration order of this.order
BevSeq == <<"b1", "b2">>

NoOrderEvent ==
    [kind |-> "none", bev |-> "none", action |-> "none", within |-> FALSE,
     sent |-> <<>>, ok |-> FALSE, rest |-> 0, was |-> "none", conf |-> 0,
     pre |-> [order |-> [b \in Bevs |-> 0], redirect |-> "none"]]

\* an order page nobody has touched
OrdIdle ==
    /\ order = [b \in Bevs |-> 0]
    /\ disabled = [b \in Bevs |-> [increase |-> FALSE, decrease |-> TRUE]]
    /\ origDisabled = [b \in Bevs |-> FALSE]
    /\ updated = [b \in Bevs |-> FALSE]
    /\ timers = {}
    /\ modalShown = FALSE
    /\ confirmDisabled = FALSE
    /\ nConf = 0
    /\ confState = [c \in 1..MaxConfirms |-> "none"]
    /\ addReqs = EmptyBag
    /\ accepted = [b \in Bevs |-> 0]
    /\ message = "none"
    /\ redirect = "none"
    /\ ordEv = NoOrderEvent

\* the theme client at rest
ThemeIdle ==
    /\ page = "loading"
    /\ currentTheme = NoTheme
    /\ currentVersion = NoVersion
    /\ initialized = FALSE
    /\ bodyTheme = NoTheme
    /\ es = "none"
    /\ pollTimer = FALSE
    /\ sinceTimer = 0
    /\ sinceLastSet = NoStamp
    /\ sinceSelect = NoStamp
    /\ modalOpen = FALSE
    /\ sseQueue = <<>>
    /\ pollReqs = 0
    /\ pollResps = EmptyBag
    /\ postReqs = EmptyBag
    /\ postResps = EmptyBag
    /\ serverTheme = "coffee"
    /\ serverVersion = 0
    /\ supplied = {0}
    /\ gotMessage = FALSE
    /\ gotPoll = FALSE
    /\ gotLocal = FALSE
    /\ ev = NoEvent

Users == {"u1", "u2"}

NoUser == "null"

NoPin == <<>>

NoPinEvent ==
    [kind |-> "none", cls |-> "none", user |-> NoUser, outcome |-> "none", sent |-> FALSE,
     req |-> NoUser,
     pre |-> [overlay |-> FALSE, input |-> <<>>, verified |-> {}, pins |-> {}]]

\* the user list as loaded, nothing typed, nothing in flight
PinIdle ==
    /\ location = "index"
    /\ pageUser = NoUser
    /\ serverPin = [u \in Users |-> NoPin]
    /\ verified = {}
    /\ pinBypass = FALSE
    /\ overlay = FALSE
    /\ currentUser = NoUser
    /\ pinInput = <<>>
    /\ pinError = "none"
    /\ submitDisabled = FALSE
    /\ checkReqs = {}
    /\ verifyReqs = {}
    /\ createReqs = {}
    /\ pinEv = NoPinEvent

NoName == [prefix |-> "none", stamp |-> 0]

\* no script has run: services up, no backups
DepIdle ==
    /\ script = "none"
    /\ pc = 1
    /\ failedAt = "none"
    /\ arg = NoName
    /\ now = 1
    /\ runStamp = 0
    /\ files = {}
    /\ services = "up"
    /\ app = "old"
    /\ printed = {}
    /\ checked = FALSE
    /\ dbOk = FALSE
    /\ appOk = FALSE
    /\ touched = FALSE

\* no timer is set
NoTimer == -1

NoAdmEvent == [kind |-> "none", idle |-> 0, checkIdle |-> NoTimer]

\* no admin page is open
AdmIdle ==
    /\ adminPage = FALSE
    /\ sinceActivity = 0
    /\ nextCheck = NoTimer
    /\ warningShown = FALSE
    /\ warningModal = FALSE
    /\ removeIn = NoTimer
    /\ timeoutModal = FALSE
    /\ redirectIn = NoTimer
    /\ expiredIdle = NoTimer
    /\ admEv = NoAdmEvent

\* the parts outside the theme client at rest
Parked == SwIdle /\ OrdIdle /\ PinIdle /\ DepIdle /\ AdmIdle

\* the parts outside the service worker at rest
SwParked == OrdIdle /\ PinIdle /\ DepIdle /\ AdmIdle

\* the parts outside the order page at rest
OrdParked == ThemeIdle /\ SwIdle /\ PinIdle /\ DepIdle /\ AdmIdle

\* the parts outside the PIN overlay at rest
PinParked == ThemeIdle /\ SwIdle /\ OrdIdle /\ DepIdle /\ AdmIdle

\* the parts outside the scripts at rest
DepParked == ThemeIdle /\ SwIdle /\ OrdIdle /\ PinIdle /\ AdmIdle

\* the parts outside the admin session monitor at rest
AdmParked == ThemeIdle /\ SwIdle /\ OrdIdle /\ PinIdle /\ DepIdle

Init ==
    /\ page = "loading"
    /\ currentTheme = NoTheme
    /\ currentVersion = NoVersion
    /\ initialized = FALSE
    /\ bodyTheme = NoTheme
    /\ es = "none"
    /\ pollTimer = FALSE
    /\ sinceTimer = 0
    /\ sinceLastSet = NoStamp
    /\ sinceSelect = NoStamp
    /\ modalOpen = FALSE
    /\ sseQueue = <<>>
    /\ pollReqs = 0
    /\ pollResps = EmptyBag
    /\ postReqs = EmptyBag
    /\ postResps = EmptyBag
    /\ serverTheme \in Themes
    /\ serverVersion = 0
    /\ supplied = {}
    /\ gotMessage = FALSE
    /\ gotPoll = FALSE
    /\ gotLocal = FALSE
    /\ ev = NoEvent
    /\ Parked

----------------------------------------------------------------------------
(* Server side: the theme publisher *)

\* the server changes its theme: the version is bumped and subscribers are told
Publish(t) ==
    /\ serverVersion < MaxVersion
    /\ es = "open" => Len(sseQueue) < MaxQueue
    /\ serverTheme' = t
    /\ serverVersion' = serverVersion + 1
    /\ sseQueue' = IF es = "open"
                   THEN Append(sseQueue, ThemeMsg(t, serverVersion + 1))
                   ELSE sseQueue
    /\ supplied' = supplied \cup {serverVersion + 1}

\* another client changes the theme
OtherAdminSetTheme ==
    /\ UNCHANGED elsewhere
    /\ \E t \in Themes : Publish(t)
    /\ ev' = NoEvent
    /\ UNCHANGED <<page, currentTheme, currentVersion, initialized, bodyTheme, es,
                   pollTimer, sinceTimer, sinceLastSet, sinceSelect, modalOpen, pollReqs, pollResps,
                   postReqs, postResps, gotMessage, gotPoll, gotLocal>>

\* POST /api/set-theme of this client, accepted
ServerSetTheme ==
    /\ UNCHANGED elsewhere
    /\ \E t \in BagToSet(postReqs) :
          /\ Publish(t)
          /\ postReqs' = Take(postReqs, t)
          /\ postResps' = Put(postResps, Resp("ok", t, serverVersion + 1))
    /\ ev' = NoEvent
    /\ UNCHANGED <<page, currentTheme, currentVersion, initialized, bodyTheme, es,
                   pollTimer, sinceTimer, sinceLastSet, sinceSelect, modalOpen, pollReqs, pollResps,
                   gotMessage, gotPoll, gotLocal>>

\* GET /api/get-theme answered with the current theme
ServerGetTheme ==
    /\ UNCHANGED elsewhere
    /\ pollReqs > 0
    /\ pollReqs' = pollReqs - 1
    /\ pollResps' = Put(pollResps, Resp("ok", serverTheme, serverVersion))
    /\ supplied' = supplied \cup {serverVersion}
    /\ ev' = NoEvent
    /\ UNCHANGED <<page, currentTheme, currentVersion, initialized, bodyTheme, es,
                   pollTimer, sinceTimer, sinceLastSet, sinceSelect, modalOpen, sseQueue, postReqs,
                   postResps, serverTheme, serverVersion, gotMessage, gotPoll, gotLocal>>

----------------------------------------------------------------------------
(* Client side *)

\* fetchTheme(): the request part
fetchTheme == pollReqs' = pollReqs + 1

\* initPolling without its first fetchTheme(true)
initPolling_TimerOnly ==
    /\ pollReqs' = pollReqs
    /\ pollTimer' = TRUE
    /\ sinceTimer' = 0

\* initPolling(): one fetch now, one every POLL_INTERVAL
initPolling ==
    /\ fetchTheme
    /\ pollTimer' = TRUE
    /\ sinceTimer' = 0

\* es.onerror without es.close()
onerror_NoClose ==
    /\ es' = es
    /\ sseQueue' = sseQueue
    /\ initPolling

\* es.onerror
onerror ==
    /\ es' = "closed"
    /\ sseQueue' = <<>>
    /\ initPolling

\* initSSE(), try branch: the subscription is created; the server answers a new
\* subscriber with the current theme
InitSSE ==
    /\ UNCHANGED elsewhere
    /\ page = "loading"
    /\ page' = "ready"
    /\ es' = "open"
    /\ sseQueue' = <<ThemeMsg(serverTheme, serverVersion)>>
    /\ supplied' = supplied \cup {serverVersion}
    /\ ev' = NoEvent
    /\ UNCHANGED <<currentTheme, currentVersion, initialized, bodyTheme, pollTimer,
                   sinceTimer, sinceLastSet, sinceSelect, modalOpen, pollReqs, pollResps, postReqs,
                   postResps, serverTheme, serverVersion, gotMessage, gotPoll, gotLocal>>

\* initSSE(), catch branch: new EventSource throws
InitSSEThrows ==
    /\ UNCHANGED elsewhere
    /\ page = "loading"
    /\ page' = "ready"
    /\ initPolling
    /\ ev' = Event("initSSEthrows", NoMsg, FALSE, FALSE)
    /\ UNCHANGED <<currentTheme, currentVersion, initialized, bodyTheme, es,
                   sinceLastSet, sinceSelect, modalOpen, sseQueue, pollResps, postReqs, postResps,
                   serverTheme, serverVersion, supplied, gotMessage, gotPoll, gotLocal>>

\* the EventSource reports an error
SseError ==
    /\ UNCHANGED elsewhere
    /\ Running
    /\ es = "open"
    /\ onerror
    /\ ev' = Event("sseerror", NoMsg, FALSE, FALSE)
    /\ UNCHANGED <<page, currentTheme, currentVersion, initialized, bodyTheme,
                   sinceLastSet, sinceSelect, modalOpen, pollResps, postReqs, postResps,
                   serverTheme,
                   serverVersion, supplied, gotMessage, gotPoll, gotLocal>>

\* a 'theme' event is dispatched to the listener of initSSE
SseTheme ==
    /\ UNCHANGED elsewhere
    /\ Running
    /\ es = "open"
    /\ sseQueue # <<>>
    /\ sseQueue' = Tail(sseQueue)
    /\ LET data == Head(sseQueue)
           c == sseThemeData(Client, data, sinceLastSet)
       IN /\ Commit(c)
          /\ ev' = Event("push", data, c.reload, FALSE)
    /\ gotMessage' = TRUE
    /\ UNCHANGED <<es, pollTimer, sinceTimer, sinceLastSet, sinceSelect, modalOpen, pollReqs,
                   pollResps, postReqs, postResps, serverTheme, serverVersion, supplied,
                   gotPoll, gotLocal>>

\* the listener of initSSE when JSON.parse throws: catch(e) { console.warn(...) }
sseThemeBad(c) == c

\* a 'theme' event whose data is not JSON arrives and is dispatched
SseBadTheme ==
    /\ UNCHANGED elsewhere
    /\ Running
    /\ es = "open"
    /\ Commit(sseThemeBad(Client))
    /\ ev' = Event("pushbad", BadMsg, sseThemeBad(Client).reload, FALSE)
    /\ UNCHANGED <<es, pollTimer, sinceTimer, sinceLastSet, sinceSelect, modalOpen, sseQueue,
                   pollReqs, pollResps, postReqs, postResps, serverTheme, serverVersion,
                   supplied, gotMessage, gotPoll, gotLocal>>

\* the interval timer of initPolling fires
PollTimer ==
    /\ UNCHANGED elsewhere
    /\ Running
    /\ pollTimer
    /\ sinceTimer = POLL_INTERVAL
    /\ pollReqs + InFlight(pollResps) < MaxInflight
    /\ fetchTheme
    /\ sinceTimer' = 0
    /\ ev' = Event("timer", NoMsg, FALSE, FALSE)
    /\ UNCHANGED <<page, currentTheme, currentVersion, initialized, bodyTheme, es,
                   pollTimer, sinceLastSet, sinceSelect, modalOpen, sseQueue, pollResps, postReqs,
                   postResps, serverTheme, serverVersion, supplied, gotMessage, gotPoll,
                   gotLocal>>

\* the promise chain of fetchTheme settles with a body whose success is true
PollResponse ==
    /\ UNCHANGED elsewhere
    /\ Running
    /\ \E r \in BagToSet(pollResps) :
          /\ pollResps' = Take(pollResps, r)
          /\ LET c == fetchThemeData(Client, r)
             IN /\ Commit(c)
                /\ ev' = Event("poll", ThemeMsg(r.theme, r.version), c.reload, FALSE)
    /\ gotMessage' = TRUE
    /\ gotPoll' = TRUE
    /\ UNCHANGED <<es, pollTimer, sinceTimer, sinceLastSet, sinceSelect, modalOpen, sseQueue,
                   pollReqs, postReqs, postResps, serverTheme, serverVersion, supplied,
                   gotLocal>>

\* fetchTheme without if(!data.success) return: the body's missing theme and
\* version are taken as data
fetchThemeFailed_NoSuccessTest(c, kind) ==
    IF kind = "nosuccess"
    THEN fetchThemeData(c, [theme |-> NoTheme, version |-> NoVersion])
    ELSE c

\* fetchTheme when the body says success false (if(!data.success) return), when
\* r.json() rejects or when the fetch rejects (.catch(()=>{}))
fetchThemeFailed(c, kind) == c

\* a GET /api/get-theme fails and the promise chain of fetchTheme settles
PollFails ==
    /\ UNCHANGED elsewhere
    /\ Running
    /\ pollReqs > 0
    /\ pollReqs' = pollReqs - 1
    /\ \E k \in {"nosuccess", "neterr"} :
          LET c == fetchThemeFailed(Client, k)
          IN /\ Commit(c)
             /\ ev' = Event("pollfail", Resp(k, NoTheme, NoVersion), c.reload, FALSE)
    /\ UNCHANGED <<es, pollTimer, sinceTimer, sinceLastSet, sinceSelect, modalOpen, sseQueue,
                   pollResps, postReqs, postResps, serverTheme, serverVersion, supplied,
                   gotMessage, gotPoll, gotLocal>>

\* theme_switcher.js: the button opens the modal
OpenModal ==
    /\ UNCHANGED elsewhere
    /\ Running
    /\ ~modalOpen
    /\ modalOpen' = TRUE
    /\ ev' = NoEvent
    /\ UNCHANGED <<page, currentTheme, currentVersion, initialized, bodyTheme, es,
                   pollTimer, sinceTimer, sinceLastSet, sinceSelect, sseQueue, pollReqs, pollResps,
                   postReqs, postResps, serverTheme, serverVersion, supplied, gotMessage,
                   gotPoll, gotLocal>>

\* selectTheme(theme): the request part
SelectTheme ==
    /\ UNCHANGED elsewhere
    /\ Running
    /\ modalOpen
    /\ InFlight(postReqs) + InFlight(postResps) < MaxPosts
    /\ \E t \in Themes : postReqs' = Put(postReqs, t)
    /\ sinceSelect' = 0
    /\ ev' = NoEvent
    /\ UNCHANGED <<page, currentTheme, currentVersion, initialized, bodyTheme, es,
                   pollTimer, sinceTimer, sinceLastSet, modalOpen, sseQueue, pollReqs,
                   pollResps, postResps, serverTheme, serverVersion, supplied,
                   gotMessage, gotPoll, gotLocal>>

\* selectTheme: the promise chain settles with success
selectThemeSuccess(r) ==
    LET c == setLocalTheme(Client, r.theme, r.version)
    IN /\ Commit(c)
       /\ sinceLastSet' = 0
       /\ modalOpen' = FALSE
       /\ gotLocal' = TRUE
       /\ ev' = Event("post", ThemeMsg(r.theme, r.version), c.reload, FALSE)

\* selectTheme with window.__LAST_THEME_SET = Date.now() ahead of the success test
selectThemeFailure_Stamps(r) ==
    /\ ev' = Event("postfail", r, FALSE, r.kind = "redirect")
    /\ sinceLastSet' = IF r.kind = "nosuccess" THEN 0 ELSE sinceLastSet
    /\ UNCHANGED <<page, currentTheme, currentVersion, initialized, bodyTheme,
                   modalOpen, gotLocal>>

\* selectTheme: redirect to /admin/login (alert), no success (console.warn),
\* or a rejected fetch (console.error)
selectThemeFailure(r) ==
    /\ ev' = Event("postfail", r, FALSE, r.kind = "redirect")
    /\ UNCHANGED <<page, currentTheme, currentVersion, initialized, bodyTheme,
                   sinceLastSet, modalOpen, gotLocal>>

\* the selection clock is kept only while a POST is outstanding
StillOut(reqs, resps) ==
    IF InFlight(reqs) + InFlight(resps) = 0 THEN NoStamp ELSE sinceSelect

\* POST /api/set-theme accepted by the server, the response arrives
SetThemeResponse ==
    /\ UNCHANGED elsewhere
    /\ Running
    /\ \E r \in BagToSet(postResps) :
          /\ postResps' = Take(postResps, r)
          /\ selectThemeSuccess(r)
          /\ sinceSelect' = StillOut(postReqs, Take(postResps, r))
    /\ UNCHANGED <<es, pollTimer, sinceTimer, sseQueue, pollReqs, pollResps, postReqs,
                   serverTheme, serverVersion, supplied, gotMessage, gotPoll>>

\* POST /api/set-theme not accepted: the response or the failure arrives
SetThemeFails ==
    /\ UNCHANGED elsewhere
    /\ Running
    /\ \E t \in BagToSet(postReqs), k \in {"redirect", "nosuccess", "neterr"} :
          /\ postReqs' = Take(postReqs, t)
          /\ selectThemeFailure(Resp(k, NoTheme, NoVersion))
          /\ sinceSelect' = StillOut(Take(postReqs, t), postResps)
    /\ UNCHANGED <<es, pollTimer, sinceTimer, sseQueue, pollReqs, pollResps, postResps,
                   serverTheme, serverVersion, supplied, gotMessage, gotPoll>>

\* the deadlines ahead: the end of the grace window, the poll timer coming due
Deadlines ==
    {GRACE_MS - sinceLastSet : x \in IF justChanged(sinceLastSet) THEN {1} ELSE {}}
    \cup {POLL_INTERVAL - sinceTimer : x \in IF pollTimer THEN {1} ELSE {}}

\* time passes up to the next deadline; a timer that is due fires first
Tick ==
    /\ UNCHANGED elsewhere
    /\ Deadlines # {}
    /\ 0 \notin Deadlines
    /\ LET dt == CHOOSE d \in Deadlines : \A e \in Deadlines : d <= e
       IN /\ sinceTimer' = IF pollTimer THEN sinceTimer + dt ELSE sinceTimer
          /\ sinceLastSet' = IF sinceLastSet = NoStamp THEN NoStamp
                             ELSE Min(sinceLastSet + dt, GRACE_MS)
          /\ sinceSelect' = IF sinceSelect = NoStamp THEN NoStamp
                            ELSE Min(sinceSelect + dt, GRACE_MS)
    /\ ev' = NoEvent
    /\ UNCHANGED <<page, currentTheme, currentVersion, initialized, bodyTheme, es,
                   pollTimer, modalOpen, sseQueue, pollReqs, pollResps, postReqs,
                   postResps, serverTheme, serverVersion, supplied, gotMessage, gotPoll,
                   gotLocal>>

\* location.reload() / location.replace() takes effect: a new page, new script state
Navigate ==
    /\ UNCHANGED elsewhere
    /\ page = "unloading"
    /\ page' = "loading"
    /\ currentTheme' = NoTheme
    /\ currentVersion' = NoVersion
    /\ initialized' = FALSE
    /\ bodyTheme' = NoTheme
    /\ es' = "none"
    /\ pollTimer' = FALSE
    /\ sinceTimer' = 0
    /\ sinceLastSet' = NoStamp
    /\ sinceSelect' = NoStamp
    /\ modalOpen' = FALSE
    /\ sseQueue' = <<>>
    /\ pollReqs' = 0
    /\ pollResps' = EmptyBag
    /\ postReqs' = EmptyBag
    /\ postResps' = EmptyBag
    /\ gotMessage' = FALSE
    /\ gotPoll' = FALSE
    /\ gotLocal' = FALSE
    /\ ev' = NoEvent
    /\ UNCHANGED <<serverTheme, serverVersion, supplied>>

Next ==
    \/ InitSSE
    \/ InitSSEThrows
    \/ SseError
    \/ SseTheme
    \/ SseBadTheme
    \/ PollTimer
    \/ PollResponse
    \/ PollFails
    \/ OpenModal
    \/ SelectTheme
    \/ SetThemeResponse
    \/ SetThemeFails
    \/ Tick
    \/ Navigate
    \/ OtherAdminSetTheme
    \/ ServerSetTheme
    \/ ServerGetTheme

Spec == Init /\ [][Next]_vars

----------------------------------------------------------------------------
(* Properties *)

\* a valid theme message (push event or poll response) was handled in the last step
IsMsg == ev.kind \in {"push", "poll"}

\* this client applied a set-theme success less than 500 ms before
SelfChangedRecently(age) == age # NoStamp /\ age < GRACE_MS

\* the cached theme, the cached version and the shown theme are as before the step
CacheUntouched ==
    /\ currentTheme = ev.pre.theme
    /\ currentVersion = ev.pre.version
    /\ bodyTheme = ev.pre.shown

\* the message was recorded and applied
Recorded ==
    /\ currentTheme = ev.msg.theme
    /\ currentVersion = ev.msg.version
    /\ bodyTheme = ev.msg.theme

\* C1: for every theme message after the first one, from the push channel or from
\* a poll, the client reloads iff the message's version differs from the cached
\* version and this client did not change the theme in the 500 ms before.
C1_ReloadIffVersionChangedOutsideGrace ==
    (IsMsg /\ ev.pre.gotMessage) =>
        (ev.reload <=> (/\ ev.msg.version # ev.pre.version
                        /\ ~SelfChangedRecently(ev.pre.age)))

\* C2 as claimed: the first theme message after page load, and the first poll
\* response after the fallback from push to polling, never reload; they only
\* record version and theme and apply the theme.
C2_FirstMessageNeverReloads ==
    (IsMsg /\ (\/ ~ev.pre.gotMessage
               \/ ev.kind = "poll" /\ ev.pre.es = "closed" /\ ~ev.pre.gotPoll)) =>
        (~ev.reload /\ Recorded)

\* C2 as amended: the first push message never reloads, and neither does a poll
\* response that is the first theme message of the page when no set-theme
\* response was applied before it; each only records version and theme and
\* applies the theme.
C2_FirstMessageOnEmptyCacheNeverReloads ==
    (\/ ev.kind = "push" /\ ~ev.pre.gotMessage
     \/ ev.kind = "poll" /\ ~ev.pre.gotMessage /\ ~ev.pre.gotLocal) =>
        (~ev.reload /\ Recorded)

\* the first poll response after a fallback, with a version the server bumped
C2_Witness ==
    /\ ev.kind = "poll"
    /\ ev.pre.es = "closed"
    /\ ~ev.pre.gotMessage
    /\ ~ev.pre.gotLocal
    /\ ev.msg.version > 0
    /\ ~ev.reload

\* C3: a non-first theme message with the cached version and another theme name
\* is applied to the page and cached, the cached version stays and no reload.
C3_ThemeOnlyChange ==
    (IsMsg /\ ev.pre.gotMessage /\ ev.msg.version = ev.pre.version
           /\ ev.msg.theme # ev.pre.theme) =>
        (/\ bodyTheme = ev.msg.theme
         /\ currentTheme = ev.msg.theme
         /\ currentVersion = ev.pre.version
         /\ ~ev.reload)

C3_Witness ==
    /\ ev.kind = "push"
    /\ ev.pre.gotMessage
    /\ ev.msg.version = ev.pre.version
    /\ ev.msg.theme # ev.pre.theme
    /\ currentTheme = ev.msg.theme

\* C4: a non-first theme message with the cached version and the cached theme
\* name changes nothing and does not reload.
C4_SameMessageNoAction ==
    (IsMsg /\ ev.pre.gotMessage /\ ev.msg.version = ev.pre.version
           /\ ev.msg.theme = ev.pre.theme) =>
        (CacheUntouched /\ ~ev.reload /\ page = "ready")

C4_Witness ==
    /\ ev.kind = "poll"
    /\ ev.pre.gotMessage
    /\ ev.msg.version = ev.pre.version
    /\ ev.msg.theme = ev.pre.theme
    /\ page = "ready"

\* C5: after load the client is subscribed or polling; when the subscription
\* cannot be created or reports an error it is closed, one fetch is sent at once
\* and the timer sends one more each time POLL_INTERVAL has passed; polling never
\* runs beside an open subscription.
C5_FallbackToPolling ==
    /\ page = "ready" => (es = "open" \/ pollTimer)
    /\ pollTimer => (es # "open" /\ sinceTimer <= POLL_INTERVAL)
    /\ es = "closed" => pollTimer
    /\ ev.kind \in {"sseerror", "initSSEthrows"} =>
          (/\ pollTimer
           /\ es # "open"
           /\ sinceTimer = 0
           /\ pollReqs = ev.pre.reqs + 1)
    /\ ev.kind = "sseerror" => es = "closed"
    /\ ev.kind = "timer" =>
          (/\ ev.pre.sinceTimer = POLL_INTERVAL
           /\ sinceTimer = 0
           /\ pollTimer
           /\ pollReqs = ev.pre.reqs + 1)

\* the timer fetches after a fallback caused by an error of the subscription
C5_Witness ==
    /\ ev.kind = "timer"
    /\ es = "closed"
    /\ pollReqs = 1

\* a set-theme success with this version is on its way to the client
OwnVersionPending(v) ==
    \E r \in BagToSet(postResps) : r.kind = "ok" /\ r.version = v

\* C6: a set-theme success is applied at once, and this client does not reload
\* for the version of its own change: not when the message carrying it comes after
\* the POST response, and not when it comes before the POST response within
\* 500 ms of the local change.
C6_NoReloadForOwnChange ==
    /\ ev.kind = "post" => bodyTheme = ev.msg.theme
    /\ (IsMsg /\ ev.pre.gotLocal /\ ev.msg.version = ev.pre.version) => ~ev.reload
    /\ (IsMsg /\ OwnVersionPending(ev.msg.version)
              /\ SelfChangedRecently(sinceSelect)) => ~ev.reload

\* C7: a failed theme fetch, a poll body with success false and a push payload
\* that cannot be parsed change nothing, reload nothing, show nothing and leave
\* the subscription or the poll timer running.
C7_FailuresAreSwallowed ==
    ev.kind \in {"pollfail", "pushbad"} =>
        (/\ CacheUntouched
         /\ ~ev.reload
         /\ page = "ready"
         /\ ~ev.alert
         /\ initialized = ev.pre.init
         /\ es = ev.pre.es
         /\ pollTimer = ev.pre.timer)

C7_Witness ==
    /\ ev.kind = "pollfail"
    /\ ev.msg.kind = "nosuccess"
    /\ currentVersion # NoVersion
    /\ pollTimer

\* nothing is on its way to a subscribed client
SettledOnPush ==
    /\ page = "ready"
    /\ es = "open"
    /\ initialized
    /\ sseQueue = <<>>
    /\ InFlight(postReqs) + InFlight(postResps) = 0

InSync == bodyTheme = serverTheme /\ currentVersion = serverVersion

\* C8: once the server's theme and version stop changing and everything sent has
\* been delivered, the client shows the server's theme and holds its version.
\* For a subscribed client with nothing left in flight nothing more arrives
\* until the server changes again, so it has to be in sync there.
C8_SettledClientInSync == SettledOnPush => InSync

C10_FailedSetThemeChangesNothing ==
    ev.kind = "postfail" =>
        (/\ CacheUntouched
         /\ sinceLastSet = ev.pre.age
         /\ modalOpen = ev.pre.modal
         /\ page = "ready")

C10_Witness ==
    /\ ev.kind = "postfail"
    /\ ev.msg.kind = "nosuccess"
    /\ modalOpen
    /\ sinceLastSet # NoStamp
    /\ sinceLastSet # 0

----------------------------------------------------------------------------
(* The service worker: cache-first for /static/, cache name 'static-v1'    *)
(* A copy is identified by the server version at which it was fetched.     *)

themeRest == <<es, pollTimer, sinceTimer, sinceLastSet, sinceSelect, modalOpen,
               pollReqs, pollResps, postReqs, postResps,
               gotMessage, gotPoll, gotLocal, ev>>

\* the 'fetch' listener: what the document gets for url u and the cache afterwards,
\* net being the copy the network returns now
swFetch(cache, u, net) ==
    IF IsStatic(u)
    THEN IF cache[u] # NoVersion
         THEN [copy |-> cache[u], cache |-> cache]
         ELSE [copy |-> net, cache |-> [cache EXCEPT ![u] = net]]
    ELSE [copy |-> net, cache |-> cache]

SwInit ==
    /\ page = "loading"
    /\ currentTheme = NoTheme
    /\ currentVersion = NoVersion
    /\ initialized = FALSE
    /\ bodyTheme = NoTheme
    /\ es = "none"
    /\ pollTimer = FALSE
    /\ sinceTimer = 0
    /\ sinceLastSet = NoStamp
    /\ sinceSelect = NoStamp
    /\ modalOpen = FALSE
    /\ sseQueue = <<>>
    /\ pollReqs = 0
    /\ pollResps = EmptyBag
    /\ postReqs = EmptyBag
    /\ postResps = EmptyBag
    /\ serverTheme \in Themes
    /\ serverVersion = 0
    /\ supplied = {0}
    /\ gotMessage = FALSE
    /\ gotPoll = FALSE
    /\ gotLocal = FALSE
    /\ ev = NoEvent
    /\ SwIdle
    /\ SwParked

\* the document starts; a worker installed by an earlier document controls it,
\* and the document registers the worker (skipWaiting in 'install')
SwPageLoad ==
    /\ UNCHANGED swElsewhere
    /\ page = "loading"
    /\ page' = "ready"
    /\ swControls' = swInstalled
    /\ swInstalled' = TRUE
    /\ loaded' = [u \in Urls |-> NoVersion]
    /\ UNCHANGED <<currentTheme, currentVersion, initialized, bodyTheme,
                   serverTheme, serverVersion, supplied, sseQueue,
                   swCache, reloadFor, themeRest>>

\* the document requests one of its urls
SwRequest ==
    /\ UNCHANGED swElsewhere
    /\ page = "ready"
    /\ \E u \in Urls :
        /\ loaded[u] = NoVersion
        /\ LET r == IF swControls
                    THEN swFetch(swCache, u, serverVersion)
                    ELSE [copy |-> serverVersion, cache |-> swCache]
           IN /\ loaded' = [loaded EXCEPT ![u] = r.copy]
              /\ swCache' = r.cache
    /\ UNCHANGED <<page, currentTheme, currentVersion, initialized, bodyTheme,
                   serverTheme, serverVersion, supplied, sseQueue,
                   swInstalled, swControls, reloadFor, themeRest>>

\* the theme client gets the server's current theme and version (fetchTheme)
SwThemeMessage ==
    /\ UNCHANGED swElsewhere
    /\ page = "ready"
    /\ LET c == fetchThemeData(Client, ThemeMsg(serverTheme, serverVersion))
       IN /\ Commit(c)
          /\ reloadFor' = IF c.reload THEN serverVersion ELSE reloadFor
    /\ UNCHANGED <<serverTheme, serverVersion, supplied, sseQueue,
                   swInstalled, swControls, swCache, loaded, themeRest>>

\* an admin changes the theme: the version is bumped
SwBump ==
    /\ UNCHANGED swElsewhere
    /\ \E t \in Themes : Publish(t)
    /\ UNCHANGED <<page, currentTheme, currentVersion, initialized, bodyTheme,
                   swVars, themeRest>>

\* location.reload() takes effect: a new document, script state gone
SwReload ==
    /\ UNCHANGED swElsewhere
    /\ page = "unloading"
    /\ page' = "loading"
    /\ currentTheme' = NoTheme
    /\ currentVersion' = NoVersion
    /\ initialized' = FALSE
    /\ bodyTheme' = NoTheme
    /\ UNCHANGED <<serverTheme, serverVersion, supplied, sseQueue, swVars, themeRest>>

\* the user opens the page anew, not through a reload of the theme client
SwVisit ==
    /\ UNCHANGED swElsewhere
    /\ page = "ready"
    /\ reloadFor # NoVersion
    /\ page' = "loading"
    /\ currentTheme' = NoTheme
    /\ currentVersion' = NoVersion
    /\ initialized' = FALSE
    /\ bodyTheme' = NoTheme
    /\ reloadFor' = NoVersion
    /\ UNCHANGED <<serverTheme, serverVersion, supplied, sseQueue,
                   swInstalled, swControls, swCache, loaded, themeRest>>

SwNext ==
    \/ SwPageLoad
    \/ SwRequest
    \/ SwThemeMessage
    \/ SwBump
    \/ SwReload
    \/ SwVisit

SpecSW == SwInit /\ [][SwNext]_vars

\* C11: in a document that a version bump's reload produced, no /static/ asset
\* the document got is a copy fetched before that bump
C11_ReloadServesNewStyling ==
    \A u \in Urls :
        (page = "ready" /\ IsStatic(u) /\ reloadFor # NoVersion /\ loaded[u] # NoVersion)
            => loaded[u] >= reloadFor

----------------------------------------------------------------------------
(* The order page: class BeverageConsumption                               *)

DEBOUNCE_MS == 300

ButtonActions == {"increase", "decrease"}

\* a decrease that does not test currentQuantity > 0
newQuantity_NoFloor(currentQuantity, action) ==
    IF action = "increase" THEN currentQuantity + 1 ELSE currentQuantity - 1

\* updateQuantity: the quantity after a click with the given data-action
newQuantity(currentQuantity, action) ==
    IF action = "increase"
    THEN currentQuantity + 1
    ELSE IF action = "decrease" /\ currentQuantity > 0
         THEN currentQuantity - 1
         ELSE currentQuantity

\* updateQuantityDisplay: the button flags of one beverage card
updateQuantityDisplay(btn, quantity, originally) ==
    [increase |-> IF originally THEN btn.increase ELSE FALSE,
     decrease |-> quantity = 0]

\* the click on this button falls into the 300 ms after a click on it that
\* changed the quantity
WithinDebounce(b, a) ==
    \E t \in timers : t.bev = b /\ t.action = a /\ t.changed

OrderPre == [order |-> order, redirect |-> redirect]

OrderEvent(kind, b, a, within, sent, ok, rest, was, c) ==
    [kind |-> kind, bev |-> b, action |-> a, within |-> within, sent |-> sent,
     ok |-> ok, rest |-> rest, was |-> was, conf |-> c, pre |-> OrderPre]

OnPage == redirect # "left"

OrdInit ==
    /\ OrdParked
    /\ order = [b \in Bevs |-> 0]
    /\ origDisabled \in [Bevs -> BOOLEAN]
    /\ \E dec \in [Bevs -> BOOLEAN] :
           disabled = [b \in Bevs |-> [increase |-> origDisabled[b], decrease |-> dec[b]]]
    /\ updated = [b \in Bevs |-> FALSE]
    /\ timers = {}
    /\ modalShown = FALSE
    /\ confirmDisabled = FALSE
    /\ nConf = 0
    /\ confState = [c \in 1..MaxConfirms |-> "none"]
    /\ addReqs = EmptyBag
    /\ accepted = [b \in Bevs |-> 0]
    /\ message = "none"
    /\ redirect = "none"
    /\ ordEv = NoOrderEvent

\* the click listener of a .quantity-btn
QuantityClick ==
    /\ UNCHANGED ordElsewhere
    /\ OnPage
    /\ ~modalShown
    /\ \E b \in Bevs, a \in ButtonActions :
        /\ ~disabled[b][a]
        /\ a = "increase" => order[b] < MaxQty
        /\ Cardinality(timers) < MaxTimers
        /\ LET originalDisabled == disabled[b][a]
               pressed == [disabled[b] EXCEPT ![a] = TRUE]
               q == newQuantity(order[b], a)
           IN /\ order' = [order EXCEPT ![b] = q]
              /\ disabled' = [disabled EXCEPT
                                ![b] = updateQuantityDisplay(pressed, q, origDisabled[b])]
              /\ updated' = [updated EXCEPT ![b] = TRUE]
              /\ timers' = timers \cup {[bev |-> b, action |-> a, left |-> DEBOUNCE_MS,
                                         changed |-> q # order[b],
                                         orig |-> originalDisabled]}
              /\ ordEv' = OrderEvent("click", b, a, WithinDebounce(b, a), <<>>, FALSE, 0, "none", 0)
    /\ UNCHANGED <<origDisabled, modalShown, confirmDisabled, nConf, confState, addReqs,
                   accepted, message, redirect>>

NextTimer == CHOOSE d \in {t.left : t \in timers} : \A t \in timers : d <= t.left

\* the setTimeout callback of a click: time moves to the next debounce deadline
DebounceTimer ==
    /\ UNCHANGED ordElsewhere
    /\ OnPage
    /\ timers # {}
    /\ LET due == {t \in timers : t.left = NextTimer}
       IN /\ disabled' = [b \in Bevs |->
                            [a \in ButtonActions |->
                               IF \E t \in due : t.bev = b /\ t.action = a /\ ~t.orig
                               THEN FALSE
                               ELSE disabled[b][a]]]
          /\ timers' = {[t EXCEPT !.left = t.left - NextTimer] : t \in timers \ due}
    /\ ordEv' = OrderEvent("timer", "none", "none", FALSE, <<>>, FALSE, 0, "none", 0)
    /\ UNCHANGED <<order, origDisabled, updated, modalShown, confirmDisabled, nConf,
                   confState, addReqs, accepted, message, redirect>>

\* half of a debounce interval passes and no timer is due
TimePasses ==
    /\ UNCHANGED ordElsewhere
    /\ OnPage
    /\ timers # {}
    /\ NextTimer = DEBOUNCE_MS
    /\ timers' = {[t EXCEPT !.left = t.left - (DEBOUNCE_MS \div 2)] : t \in timers}
    /\ ordEv' = OrderEvent("time", "none", "none", FALSE, <<>>, FALSE, 0, "none", 0)
    /\ UNCHANGED <<order, disabled, origDisabled, updated, modalShown, confirmDisabled,
                   nConf, confState, addReqs, accepted, message, redirect>>

\* handleDoneClick and showConfirmationModal
DoneClick ==
    /\ UNCHANGED ordElsewhere
    /\ OnPage
    /\ ~modalShown
    /\ LET hasItems == \E b \in Bevs : order[b] > 0
       IN /\ redirect' = IF hasItems THEN redirect ELSE "left"
          /\ modalShown' = hasItems
    /\ ordEv' = OrderEvent("done", "none", "none", FALSE, <<>>, FALSE, 0, "none", 0)
    /\ UNCHANGED <<order, disabled, origDisabled, updated, timers, confirmDisabled,
                   nConf, confState, addReqs, accepted, message>>

\* the user closes the modal without confirming
DismissModal ==
    /\ UNCHANGED ordElsewhere
    /\ OnPage
    /\ modalShown
    /\ modalShown' = FALSE
    /\ ordEv' = OrderEvent("dismiss", "none", "none", FALSE, <<>>, FALSE, 0, "none", 0)
    /\ UNCHANGED <<order, disabled, origDisabled, updated, timers, confirmDisabled,
                   nConf, confState, addReqs, accepted, message, redirect>>

Wanted(r) == r.quantity > 0

\* the addConsumption calls confirmOrder makes, in order
promises(ord) ==
    SelectSeq([i \in 1..Len(BevSeq) |-> [bev |-> BevSeq[i], quantity |-> ord[BevSeq[i]]]],
              Wanted)

\* the requests of confirmation c as a bag
Sent(c, p) ==
    LET tagged == {[conf |-> c, bev |-> p[i].bev, quantity |-> p[i].quantity] : i \in DOMAIN p}
    IN [r \in tagged |->
          Cardinality({i \in DOMAIN p : p[i].bev = r.bev /\ p[i].quantity = r.quantity})]

\* a wait that ends with the first answer
PromiseAll_FirstWins(st, ok, rest) ==
    IF st # "waiting" THEN st
    ELSE IF ~ok THEN "failed"
    ELSE "succeeded"

\* await Promise.all(promises) inside try/catch: the confirmation after one
\* more answer, rest being the number of its requests still out
PromiseAll(st, ok, rest) ==
    IF st # "waiting" THEN st
    ELSE IF ~ok THEN "failed"
    ELSE IF rest = 0 THEN "succeeded"
    ELSE "waiting"

\* what the page shows once the confirmation went from state was to state st
Settle(was, st) ==
    /\ message' = IF was = st THEN message
                  ELSE IF st = "succeeded" THEN "success"
                  ELSE IF st = "failed" THEN "danger"
                  ELSE message
    /\ modalShown' = IF was # st /\ st = "succeeded" THEN FALSE ELSE modalShown
    /\ redirect' = IF was # st /\ st = "succeeded" /\ redirect = "none"
                   THEN "scheduled" ELSE redirect
    /\ confirmDisabled' = IF was # st /\ st = "failed" THEN FALSE ELSE confirmDisabled

\* confirmOrder up to the await
ConfirmClick ==
    /\ UNCHANGED ordElsewhere
    /\ OnPage
    /\ modalShown
    /\ ~confirmDisabled
    /\ nConf < MaxConfirms
    /\ LET c == nConf + 1
           p == promises(order)
           st == IF p = <<>> THEN "succeeded" ELSE "waiting"
       IN /\ nConf' = c
          /\ addReqs' = addReqs (+) Sent(c, p)
          /\ confState' = [confState EXCEPT ![c] = st]
          /\ message' = IF st = "succeeded" THEN "success" ELSE message
          /\ modalShown' = (st # "succeeded")
          /\ redirect' = IF st = "succeeded" /\ redirect = "none" THEN "scheduled" ELSE redirect
          /\ confirmDisabled' = TRUE
          /\ ordEv' = OrderEvent("confirm", "none", "none", FALSE, p, FALSE, Len(p), "none", c)
    /\ UNCHANGED <<order, disabled, origDisabled, updated, timers, accepted>>

\* the number of requests of confirmation c in the bag
Outstanding(bag, c) ==
    BagCardinality([r \in {x \in BagToSet(bag) : x.conf = c} |-> bag[r]])

\* the server answers one /add_consumption request and confirmOrder goes on
AddConsumptionResponse ==
    /\ UNCHANGED ordElsewhere
    /\ OnPage
    /\ \E r \in BagToSet(addReqs), ok \in BOOLEAN :
        LET left == Take(addReqs, r)
            rest == Outstanding(left, r.conf)
            st == PromiseAll(confState[r.conf], ok, rest)
        IN /\ addReqs' = left
           /\ accepted' = IF ok THEN [accepted EXCEPT ![r.bev] = @ + 1] ELSE accepted
           /\ confState' = [confState EXCEPT ![r.conf] = st]
           /\ Settle(confState[r.conf], st)
           /\ ordEv' = OrderEvent("response", r.bev, "none", FALSE, <<>>, ok, rest,
                                  confState[r.conf], r.conf)
    /\ UNCHANGED <<order, disabled, origDisabled, updated, timers, nConf>>

\* the 1500 ms timer of a confirmed order: window.location.href = '/'
RedirectTimer ==
    /\ UNCHANGED ordElsewhere
    /\ redirect = "scheduled"
    /\ redirect' = "left"
    /\ ordEv' = OrderEvent("redirect", "none", "none", FALSE, <<>>, FALSE, 0, "none", 0)
    /\ UNCHANGED <<order, disabled, origDisabled, updated, timers, modalShown,
                   confirmDisabled, nConf, confState, addReqs, accepted, message>>

OrdNext ==
    \/ QuantityClick
    \/ DebounceTimer
    \/ TimePasses
    \/ DoneClick
    \/ DismissModal
    \/ ConfirmClick
    \/ AddConsumptionResponse
    \/ RedirectTimer

SpecOrder == OrdInit /\ [][OrdNext]_vars

\* C15: a click on a quantity button within 300 ms after a click on that
\* button that changed the quantity leaves every quantity as it was
C15_QuantityButtonsDebounced ==
    (ordEv.kind = "click" /\ ordEv.within) => order = ordEv.pre.order

\* C16: for a beverage updated at least once, the decrease button is disabled
\* exactly when the order quantity is 0
C16_DecreaseDisabledIffZero ==
    \A b \in Bevs : updated[b] => (disabled[b].decrease <=> order[b] = 0)

\* C17: every quantity is a non-negative integer; an increase adds exactly 1,
\* a decrease subtracts exactly 1 above 0 and leaves 0 at 0, and no click
\* changes the quantity of another beverage
C17_QuantitiesStepByOne ==
    /\ \A b \in Bevs : order[b] \in Nat
    /\ ordEv.kind = "click" =>
          LET was == ordEv.pre.order[ordEv.bev]
          IN /\ ordEv.action = "increase" => order[ordEv.bev] = was + 1
             /\ ordEv.action = "decrease" =>
                   order[ordEv.bev] = IF was > 0 THEN was - 1 ELSE 0
             /\ \A o \in Bevs \ {ordEv.bev} : order[o] = ordEv.pre.order[o]

\* a decrease click on a beverage at 0 while another beverage is above 0
C17_Witness ==
    /\ ordEv.kind = "click"
    /\ ordEv.action = "decrease"
    /\ ordEv.pre.order[ordEv.bev] = 0
    /\ \E o \in Bevs \ {ordEv.bev} : order[o] > 0

\* the number of requests for beverage b among those a confirmation sent
SentFor(b) == Cardinality({i \in DOMAIN ordEv.sent : ordEv.sent[i].bev = b})

\* C18: a confirmation sends exactly one request per beverage above 0, with
\* the beverage's full quantity, and none for a beverage at 0; success message
\* and redirect come only with the last answer when every answer was a
\* success; the first failure shows the error message, enables the confirm
\* button and schedules no redirect
C18_ConfirmAllOrNothing ==
    /\ ordEv.kind = "confirm" =>
          /\ \A b \in Bevs : SentFor(b) = IF ordEv.pre.order[b] > 0 THEN 1 ELSE 0
          /\ \A i \in DOMAIN ordEv.sent :
                ordEv.sent[i].quantity = ordEv.pre.order[ordEv.sent[i].bev]
    /\ (ordEv.kind = "response" /\ (redirect # ordEv.pre.redirect
                                    \/ confState[ordEv.conf] # ordEv.was)
                                /\ confState[ordEv.conf] # "failed") =>
          /\ ordEv.ok /\ ordEv.rest = 0 /\ ordEv.was = "waiting"
          /\ message = "success" /\ redirect = "scheduled"
    /\ (ordEv.kind = "response" /\ ~ordEv.ok) => redirect = ordEv.pre.redirect
    /\ (ordEv.kind = "response" /\ ~ordEv.ok /\ ordEv.was = "waiting") =>
          /\ message = "danger"
          /\ ~confirmDisabled
          /\ confState[ordEv.conf] = "failed"
    /\ (message = "success" \/ redirect = "scheduled") =>
          \E c \in 1..MaxConfirms : confState[c] = "succeeded"

\* the last answer of a confirmation for two beverages arrived and all succeeded
C18_Witness ==
    /\ ordEv.kind = "response"
    /\ ordEv.ok
    /\ confState[ordEv.conf] = "succeeded"
    /\ \A b \in Bevs : ordEv.pre.order[b] > 0 /\ accepted[b] > 0
    /\ message = "success"
    /\ redirect = "scheduled"

\* C19: the server accepts each beverage's quantity at most once, and at most
\* one confirmation has requests in flight
C19_AcceptedOnceOneInFlight ==
    /\ \A b \in Bevs : accepted[b] <= 1
    /\ Cardinality({c \in 1..MaxConfirms : Outstanding(addReqs, c) > 0}) <= 1

\* C24: the theme client is in exactly one delivery mode: once the page runs,
\* either the push subscription is open or the poll timer runs, never both;
\* after the fallback the subscription stays closed and the timer stays;
\* initPolling only runs when no poll timer exists, so a page has at most one
C24_OneDeliveryMode ==
    /\ page # "loading" => ((es = "open") <=> ~pollTimer)
    /\ page = "loading" => (es = "none" /\ ~pollTimer)
    /\ (ev.kind # "none" /\ ev.pre.timer) => (pollTimer /\ es = ev.pre.es /\ es # "open")
    /\ ev.kind \in {"sseerror", "initSSEthrows"} => (~ev.pre.timer /\ pollTimer)

\* the subscription failed: it is closed and the poll timer runs
C24_Witness ==
    /\ ev.kind = "sseerror"
    /\ ev.pre.es = "open"
    /\ es = "closed"
    /\ pollTimer

\* C23: while the server's version only grows, the version the client caches
\* never moves back to an older one, whatever the order in which poll
\* responses, push messages and set-theme responses are handled
C23_CachedVersionNeverMovesBack ==
    (ev.kind # "none" /\ ev.pre.version \in Versions /\ currentVersion \in Versions)
        => currentVersion >= ev.pre.version

----------------------------------------------------------------------------
(* The user list (UserClickHandler, PinAuth) and the entries page          *)
(* (PinManagement).  A PIN is a sequence of characters.                    *)

Digits == {"1", "2"}

\* the texts a user types or pastes into the PIN input
PinTexts ==
    { <<>>,
      <<"1", "2">>,
      <<"1", "1", "1", "1">>,
      <<"2", "2", "2", "2">>,
      <<" ", "1", "1", "1", "1", " ">>,
      <<"1", "a", "1", "1">>,
      <<"a", "b">>,
      <<"1", "1", "1", "1", "1">> }

IsDigit(ch) == ch \in Digits

\* handleInput: value.replace(/[^0-9]/g, '')
handleInput(value) == SelectSeq(value, IsDigit)

RECURSIVE TrimLeft(_)
TrimLeft(str) == IF str # <<>> /\ Head(str) = " " THEN TrimLeft(Tail(str)) ELSE str

RECURSIVE TrimRight(_)
TrimRight(str) ==
    IF str # <<>> /\ str[Len(str)] = " "
    THEN TrimRight(SubSeq(str, 1, Len(str) - 1))
    ELSE str

\* String.prototype.trim
trim(str) == TrimRight(TrimLeft(str))

\* a validation that only refuses the empty PIN
submitPinCheck_NonEmptyOnly(value) ==
    IF trim(value) = <<>> THEN "empty" ELSE "send"

\* the two tests at the head of submitPin (both classes): the error to show,
\* or "send"
submitPinCheck(value) ==
    LET pin == trim(value)
    IN IF pin = <<>> THEN "empty"
       ELSE IF Len(pin) # 4 \/ ~(\A i \in DOMAIN pin : IsDigit(pin[i])) THEN "format"
       ELSE "send"

PinPre == [overlay |-> overlay, input |-> pinInput, verified |-> verified,
           pins |-> {u \in Users : serverPin[u] # NoPin}]

\* the input is kept for the handlers that read it; req is the user_id of the
\* /verify_pin request the handler got the answer of
PinEvent(kind, cls, u, outcome, sent) ==
    [kind |-> kind, cls |-> cls, user |-> u, outcome |-> outcome, sent |-> sent,
     req |-> NoUser,
     pre |-> IF kind = "submit" THEN PinPre ELSE [PinPre EXCEPT !.input = <<>>]]

PinInit ==
    /\ PinParked
    /\ location = "index"
    /\ pageUser = NoUser
    /\ serverPin = [u \in Users |-> IF u = "u1" THEN <<"1", "1", "1", "1">> ELSE NoPin]
    /\ verified = {}
    /\ pinBypass \in BOOLEAN
    /\ overlay = FALSE
    /\ currentUser = NoUser
    /\ pinInput = <<>>
    /\ pinError = "none"
    /\ submitDisabled = FALSE
    /\ checkReqs = {}
    /\ verifyReqs = {}
    /\ createReqs = {}
    /\ pinEv = NoPinEvent

\* the server refuses the entries page of a user with a PIN not yet verified,
\* unless a bypass is on, and sends the browser to the user list with
\* require_pin=true
RequirePin(pins, ver, u) == ~pinBypass /\ pins[u] # NoPin /\ u \notin ver

\* window.location.href = '/entries?user_id=u': the page that loads, with
\* checkForPinRequirement on the user list
Arrive(pins, ver, u) ==
    /\ location' = IF RequirePin(pins, ver, u) THEN "index" ELSE "entries"
    /\ pageUser' = IF RequirePin(pins, ver, u) THEN NoUser ELSE u
    /\ overlay' = RequirePin(pins, ver, u)
    /\ currentUser' = IF RequirePin(pins, ver, u) THEN u ELSE NoUser
    /\ pinInput' = <<>>
    /\ pinError' = "none"
    /\ submitDisabled' = FALSE
    /\ checkReqs' = {}
    /\ verifyReqs' = {}
    /\ createReqs' = {}

\* handleUserClick up to the await
UserCardClick ==
    /\ UNCHANGED <<pinElsewhere, pinBypass>>
    /\ location = "index"
    /\ ~overlay
    /\ Cardinality(checkReqs) < MaxPinReqs
    /\ \E u \in Users \ checkReqs :
        /\ checkReqs' = checkReqs \cup {u}
        /\ pinEv' = PinEvent("click", "UserClickHandler", u, "none", TRUE)
    /\ UNCHANGED <<location, pageUser, serverPin, verified, overlay, currentUser, pinInput,
                   pinError, submitDisabled, verifyReqs, createReqs>>

\* handleUserClick after the await: /check_user_pin answered, failed or errored
CheckResponse ==
    /\ UNCHANGED <<pinElsewhere, pinBypass>>
    /\ location = "index"
    /\ \E u \in checkReqs, outcome \in {"answer", "error", "network"} :
        IF outcome = "answer" /\ serverPin[u] # NoPin
        THEN \* showPinForUser
             /\ currentUser' = u
             /\ pinInput' = <<>>
             /\ pinError' = "none"
             /\ overlay' = TRUE
             /\ checkReqs' = checkReqs \ {u}
             /\ pinEv' = PinEvent("show", "UserClickHandler", u, outcome, FALSE)
             /\ UNCHANGED <<location, pageUser, submitDisabled, verifyReqs, createReqs>>
        ELSE \* window.location.href = userCard.href
             /\ Arrive(serverPin, verified, u)
             /\ pinEv' = PinEvent("navigate", "UserClickHandler", u, outcome, FALSE)
    /\ UNCHANGED <<serverPin, verified>>

\* the user replaces the text of the PIN input: the 'input' listener filters it
TypePin ==
    /\ UNCHANGED <<pinElsewhere, pinBypass>>
    /\ overlay
    /\ \E text \in PinTexts :
        /\ handleInput(text) # pinInput
        /\ pinInput' = handleInput(text)
    /\ pinEv' = PinEvent("input", "none", currentUser, "none", FALSE)
    /\ UNCHANGED <<location, pageUser, serverPin, verified, overlay, currentUser,
                   pinError, submitDisabled, checkReqs, verifyReqs, createReqs>>

\* PinAuth.submitPin up to the await
PinAuthSubmit ==
    /\ UNCHANGED <<pinElsewhere, pinBypass>>
    /\ location = "index"
    /\ overlay
    /\ LET check == submitPinCheck(pinInput)
       IN /\ check = "send" => Cardinality(verifyReqs) < MaxPinReqs
          /\ pinError' = IF check = "send" THEN pinError ELSE check
          /\ verifyReqs' = IF check = "send"
                           THEN verifyReqs \cup {[user |-> currentUser, pin |-> trim(pinInput)]}
                           ELSE verifyReqs
          /\ pinEv' = PinEvent("submit", "PinAuth", currentUser, check, check = "send")
    /\ UNCHANGED <<location, pageUser, serverPin, verified, overlay, currentUser, pinInput,
                   submitDisabled, checkReqs, createReqs>>

\* PinAuth.hideOverlay: the cancel button or Escape
PinAuthHide ==
    /\ UNCHANGED <<pinElsewhere, pinBypass>>
    /\ location = "index"
    /\ overlay
    /\ overlay' = FALSE
    /\ currentUser' = NoUser
    /\ pinEv' = PinEvent("hide", "PinAuth", currentUser, "none", FALSE)
    /\ UNCHANGED <<location, pageUser, serverPin, verified, pinInput, pinError,
                   submitDisabled, checkReqs, verifyReqs, createReqs>>

\* PinAuth.submitPin after the await: /verify_pin accepted the PIN, rejected
\* it, or the request failed
VerifyResponse ==
    /\ UNCHANGED <<pinElsewhere, pinBypass>>
    /\ location = "index"
    /\ \E r \in verifyReqs, outcome \in {"success", "rejected", "network"} :
        /\ outcome = "success" => r.pin = serverPin[r.user]
        /\ outcome = "rejected" => r.pin # serverPin[r.user]
        /\ verified' = IF outcome = "success" THEN verified \cup {r.user} ELSE verified
        /\ IF outcome = "success" /\ currentUser # NoUser
           THEN \* window.location.href = `/entries?user_id=${this.currentUser.id}`
                /\ Arrive(serverPin, verified \cup {r.user}, currentUser)
                /\ pinEv' = [PinEvent("navigate", "PinAuth", currentUser, outcome, FALSE)
                                EXCEPT !.req = r.user]
           ELSE /\ pinError' = IF outcome = "rejected" THEN "rejected" ELSE "network"
                /\ pinInput' = IF outcome = "rejected" THEN <<>> ELSE pinInput
                /\ verifyReqs' = verifyReqs \ {r}
                /\ pinEv' = [PinEvent("response", "PinAuth", r.user, outcome, FALSE)
                                EXCEPT !.req = r.user]
                /\ UNCHANGED <<location, pageUser, overlay, currentUser, checkReqs,
                               submitDisabled, createReqs>>
    /\ UNCHANGED serverPin

\* showCreatePinOverlay on the entries page
ShowCreatePin ==
    /\ UNCHANGED <<pinElsewhere, pinBypass>>
    /\ location = "entries"
    /\ ~overlay
    /\ overlay' = TRUE
    /\ pinInput' = <<>>
    /\ pinError' = "none"
    /\ pinEv' = PinEvent("show", "PinManagement", pageUser, "none", FALSE)
    /\ UNCHANGED <<location, pageUser, serverPin, verified, currentUser, submitDisabled,
                   checkReqs, verifyReqs, createReqs>>

\* PinManagement.submitPin up to the await (submit button, or Enter in the input)
PinManagementSubmit ==
    /\ UNCHANGED <<pinElsewhere, pinBypass>>
    /\ location = "entries"
    /\ overlay
    /\ LET check == submitPinCheck(pinInput)
       IN /\ check = "send" => Cardinality(createReqs) < MaxPinReqs
          /\ pinError' = IF check = "send" THEN pinError ELSE check
          /\ submitDisabled' = IF check = "send" THEN TRUE ELSE submitDisabled
          /\ createReqs' = IF check = "send"
                           THEN createReqs \cup {[user |-> pageUser, pin |-> trim(pinInput)]}
                           ELSE createReqs
          /\ pinEv' = PinEvent("submit", "PinManagement", pageUser, check, check = "send")
    /\ UNCHANGED <<location, pageUser, serverPin, verified, overlay, currentUser, pinInput,
                   checkReqs, verifyReqs>>

\* PinManagement.cancelPin
PinManagementCancel ==
    /\ UNCHANGED <<pinElsewhere, pinBypass>>
    /\ location = "entries"
    /\ overlay
    /\ overlay' = FALSE
    /\ pinEv' = PinEvent("hide", "PinManagement", pageUser, "none", FALSE)
    /\ UNCHANGED <<location, pageUser, serverPin, verified, currentUser, pinInput, pinError,
                   submitDisabled, checkReqs, verifyReqs, createReqs>>

\* PinManagement.submitPin after the await: /create_user_pin stored the PIN,
\* rejected it, or the request failed
CreateResponse ==
    /\ UNCHANGED <<pinElsewhere, pinBypass>>
    /\ location = "entries"
    /\ \E r \in createReqs, outcome \in {"success", "rejected", "network"} :
        /\ outcome = "success" => serverPin[r.user] = NoPin
        /\ serverPin' = IF outcome = "success"
                        THEN [serverPin EXCEPT ![r.user] = r.pin]
                        ELSE serverPin
        /\ IF outcome = "success"
           THEN \* hideOverlay, alert, window.location.reload()
                /\ Arrive([serverPin EXCEPT ![r.user] = r.pin], verified, pageUser)
                /\ pinEv' = PinEvent("reload", "PinManagement", r.user, outcome, FALSE)
           ELSE /\ pinError' = IF outcome = "rejected" THEN "rejected" ELSE "network"
                /\ pinInput' = IF outcome = "rejected" THEN <<>> ELSE pinInput
                /\ submitDisabled' = FALSE
                /\ createReqs' = createReqs \ {r}
                /\ pinEv' = PinEvent("response", "PinManagement", r.user, outcome, FALSE)
                /\ UNCHANGED <<location, pageUser, overlay, currentUser, checkReqs, verifyReqs>>
    /\ UNCHANGED verified

\* the user goes back from the entries page to the user list
BackToIndex ==
    /\ UNCHANGED <<pinElsewhere, pinBypass>>
    /\ location = "entries"
    /\ location' = "index"
    /\ pageUser' = NoUser
    /\ overlay' = FALSE
    /\ currentUser' = NoUser
    /\ pinInput' = <<>>
    /\ pinError' = "none"
    /\ submitDisabled' = FALSE
    /\ checkReqs' = {}
    /\ verifyReqs' = {}
    /\ createReqs' = {}
    /\ pinEv' = PinEvent("back", "none", pageUser, "none", FALSE)
    /\ UNCHANGED <<serverPin, verified>>

PinNext ==
    \/ UserCardClick
    \/ CheckResponse
    \/ TypePin
    \/ PinAuthSubmit
    \/ PinAuthHide
    \/ VerifyResponse
    \/ ShowCreatePin
    \/ PinManagementSubmit
    \/ PinManagementCancel
    \/ CreateResponse
    \/ BackToIndex

SpecPin == PinInit /\ [][PinNext]_vars

\* C12: a navigation from the user list to the entries page of a user who has
\* a PIN happens only after a /verify_pin request for that user succeeded,
\* whatever the outcome of /check_user_pin
C12_NoEntriesWithoutVerifiedPin ==
    (pinEv.kind = "navigate" /\ pinEv.user \in pinEv.pre.pins) => pinEv.user \in verified

Is4Digits(str) == Len(str) = 4 /\ \A i \in 1..Len(str) : str[i] \in Digits

\* C20: submitPin sends a request exactly when the entered PIN is 4 digits and
\* shows an error otherwise; every request in flight carries 4 digits; after a
\* rejected PIN the input is empty and the overlay is as it was
C20_OnlyFourDigitPinsAreSent ==
    /\ pinEv.kind = "submit" =>
          /\ pinEv.sent <=> Is4Digits(pinEv.pre.input)
          /\ ~pinEv.sent => pinError \in {"empty", "format"}
          /\ pinEv.pre.input = <<>> => pinError = "empty"
    /\ \A r \in verifyReqs \cup createReqs : Is4Digits(r.pin)
    /\ (pinEv.kind = "response" /\ pinEv.outcome = "rejected") =>
          /\ pinInput = <<>>
          /\ overlay = pinEv.pre.overlay
          /\ pinError = "rejected"

\* the server rejected a 4-digit PIN typed into the open overlay
C20_Witness ==
    /\ pinEv.kind = "response"
    /\ pinEv.outcome = "rejected"
    /\ pinEv.pre.overlay
    /\ overlay

\* C21: when /verify_pin answers a request with success, the client navigates
\* to the entries page of the user whose id the request carried, also when the
\* overlay was cancelled or opened for another user in between
C21_VerifiedUserIsOpened ==
    (pinEv.cls = "PinAuth" /\ pinEv.outcome = "success") =>
        /\ pinEv.kind = "navigate"
        /\ pinEv.user = pinEv.req
        /\ location = "entries"
        /\ pageUser = pinEv.req

----------------------------------------------------------------------------
(* The deployment scripts and the rollback script, run one at a time.      *)
(* Every script runs under set -e; a command of the environment (mysqldump, *)
(* tar, docker-compose, git) succeeds or fails.                            *)

ServerSide == "deploy_server_side.sh"
GitHub == "deploy_server_github.sh"
Safe == "deploy_to_server_safe.sh"
Rollback == "rollback_deployment.sh"

Scripts == {ServerSide, GitHub, Safe, Rollback}

\* the commands of a script in order
Steps(s) ==
    CASE s = ServerSide -> <<"args", "checks", "dbBackup", "appBackup", "config", "stop",
                             "deploy", "perms", "startDb", "start", "summary">>
      [] s = GitHub -> <<"checks", "dbBackup", "appBackup", "config", "stop",
                         "deploy", "perms", "startDb", "start", "summary">>
      [] s = Safe -> <<"dbBackup", "appBackup", "config", "checks", "package", "summary">>
      [] s = Rollback -> <<"args", "findDb", "findApp", "stop", "startDb", "restoreDb",
                           "saveCurrent", "restoreApp", "start", "summary">>

\* BACKUP_DIR of a script
BACKUP_DIR(s) == IF s = Safe THEN "./backups" ELSE "/home/laurin/backups"

\* the prefix of the backup name a script makes up
BackupPrefix(s) ==
    CASE s = Safe -> "pre_deployment"
      [] s = Rollback -> "rollback_backup"
      [] OTHER -> "server_backup"

\* the suffix a script gives its application backup
AppBackupSuffix(s) == IF s = Safe THEN "_app_files.tar.gz" ELSE "_app.tar.gz"

BackupFile(dir, name, suffix) == [dir |-> dir, name |-> name, suffix |-> suffix]

\* a script that goes on after a failed command
Errexit_Off(ok) == FALSE

\* set -e: the script exits when a command fails
Errexit(ok) == ~ok

DepRunning == script # "none" /\ failedAt = "none" /\ pc <= Len(Steps(script))

CurStep == Steps(script)[pc]

\* the script goes on to its next command, or exits at this one
Exit(leave) ==
    /\ pc' = IF leave THEN pc ELSE pc + 1
    /\ failedAt' = IF leave THEN CurStep ELSE "none"

DepInit ==
    /\ DepParked
    /\ script = "none"
    /\ pc = 1
    /\ failedAt = "none"
    /\ arg = NoName
    /\ now = 1
    /\ runStamp = 0
    /\ files = {}
    /\ services = "up"
    /\ app = "old"
    /\ printed = {}
    /\ checked = FALSE
    /\ dbOk = FALSE
    /\ appOk = FALSE
    /\ touched = FALSE

\* the operator starts a script; TIMESTAMP is taken at the top of two of them
StartScript ==
    /\ UNCHANGED depElsewhere
    /\ ~DepRunning
    /\ \E s \in Scripts :
        /\ script' = s
        /\ arg' \in CASE s = ServerSide -> {NoName, [prefix |-> "deployment", stamp |-> 1]}
                      [] s = Rollback -> {NoName} \cup {p.name : p \in printed}
                      [] OTHER -> {NoName}
        /\ runStamp' = IF s \in {GitHub, Safe} THEN now ELSE 0
    /\ pc' = 1
    /\ failedAt' = "none"
    /\ checked' = FALSE
    /\ dbOk' = FALSE
    /\ appOk' = FALSE
    /\ touched' = FALSE
    /\ UNCHANGED <<now, files, services, app, printed>>

\* a test followed by exit 1: the argument, the pre-deployment checks, the
\* backup files of a rollback
Check ==
    /\ UNCHANGED depElsewhere
    /\ DepRunning
    /\ CurStep \in {"args", "checks", "findDb", "findApp"}
    /\ \E env \in BOOLEAN :
        LET ok == CASE CurStep = "args" -> arg # NoName
                    [] CurStep = "checks" -> env
                    [] CurStep = "findDb" ->
                          BackupFile(BACKUP_DIR(script), arg, "_database.sql") \in files
                    [] CurStep = "findApp" ->
                          BackupFile(BACKUP_DIR(script), arg, "_app.tar.gz") \in files
        IN /\ Exit(~ok)
           /\ checked' = IF CurStep = "checks" THEN ok ELSE checked
    /\ UNCHANGED <<script, arg, now, runStamp, files, services, app, printed,
                   dbOk, appOk, touched>>

\* mysqldump > file, tar -czf, cp of the configuration files
Backup ==
    /\ UNCHANGED depElsewhere
    /\ DepRunning
    /\ CurStep \in {"dbBackup", "appBackup", "config", "saveCurrent"}
    /\ \E ok \in BOOLEAN, partial \in BOOLEAN :
        LET stamp == IF script = ServerSide /\ CurStep = "dbBackup" THEN now
                     ELSE IF CurStep = "saveCurrent" THEN now
                     ELSE runStamp
            name == [prefix |-> BackupPrefix(script), stamp |-> stamp]
            dir == BACKUP_DIR(script)
        IN /\ ok => ~partial
           /\ CurStep = "config" => ok
           /\ runStamp' = IF CurStep = "saveCurrent" THEN runStamp ELSE stamp
           /\ files' = CASE CurStep = "dbBackup" ->
                                files \cup {BackupFile(dir, name, "_database.sql")}
                         [] CurStep = "config" -> files
                         [] OTHER ->
                                IF ok \/ partial
                                THEN files \cup {BackupFile(dir, name, AppBackupSuffix(script))}
                                ELSE files
           /\ dbOk' = IF CurStep = "dbBackup" THEN ok ELSE dbOk
           /\ appOk' = IF CurStep = "appBackup" THEN ok ELSE appOk
           /\ IF CurStep = "config" THEN Exit(FALSE) ELSE Exit(Errexit(ok))
    /\ UNCHANGED <<script, arg, now, services, app, printed, checked, touched>>

\* cd "$APP_DIR"; docker-compose down
StopServices ==
    /\ UNCHANGED depElsewhere
    /\ DepRunning
    /\ CurStep = "stop"
    /\ \E ok \in BOOLEAN, stopped \in BOOLEAN :
        /\ ok => stopped
        /\ services' = IF stopped THEN "down" ELSE services
        /\ touched' = (touched \/ stopped)
        /\ Exit(Errexit(ok))
    /\ UNCHANGED <<script, arg, now, runStamp, files, app, printed, checked, dbOk, appOk>>

\* the commands that write: tar -xzf or git pull, chown, the database restore,
\* rm -rf and tar -xzf of a rollback, the deployment package
Deploy ==
    /\ UNCHANGED depElsewhere
    /\ DepRunning
    /\ CurStep \in {"deploy", "perms", "restoreDb", "restoreApp", "package"}
    /\ \E ok \in BOOLEAN, wrote \in BOOLEAN :
        /\ ok => wrote
        /\ CurStep = "restoreApp" => wrote
        /\ app' = CASE CurStep = "deploy" ->
                          IF ok THEN "new" ELSE IF wrote THEN "partial" ELSE app
                    [] CurStep = "restoreApp" -> IF ok THEN "restored" ELSE "partial"
                    [] OTHER -> app
        /\ touched' = (touched \/ (wrote /\ CurStep # "restoreDb"))
        /\ Exit(Errexit(ok))
    /\ UNCHANGED <<script, arg, now, runStamp, files, services, printed,
                   checked, dbOk, appOk>>

\* docker-compose up -d db, docker-compose up -d
StartServices ==
    /\ UNCHANGED depElsewhere
    /\ DepRunning
    /\ CurStep \in {"startDb", "start"}
    /\ \E ok \in BOOLEAN :
        /\ services' = IF ~ok THEN services
                       ELSE IF CurStep = "startDb" THEN "db" ELSE "up"
        /\ Exit(Errexit(ok))
    /\ UNCHANGED <<script, arg, now, runStamp, files, app, printed,
                   checked, dbOk, appOk, touched>>

\* the verification, which never exits, and the summary: a deployment script
\* prints ./rollback_deployment.sh with its backup name
Summary ==
    /\ UNCHANGED depElsewhere
    /\ DepRunning
    /\ CurStep = "summary"
    /\ printed' = IF script = Rollback THEN printed
                  ELSE printed \cup {[script |-> script,
                                      name |-> [prefix |-> BackupPrefix(script),
                                                stamp |-> runStamp]]}
    /\ Exit(FALSE)
    /\ UNCHANGED <<script, arg, now, runStamp, files, services, app,
                   checked, dbOk, appOk, touched>>

\* a second passes
DepTick ==
    /\ UNCHANGED depElsewhere
    /\ now < MaxStamp
    /\ now' = now + 1
    /\ UNCHANGED <<script, pc, failedAt, arg, runStamp, files, services, app, printed,
                   checked, dbOk, appOk, touched>>

DepNext ==
    \/ StartScript
    \/ Check
    \/ Backup
    \/ StopServices
    \/ Deploy
    \/ StartServices
    \/ Summary
    \/ DepTick

SpecDeploy == DepInit /\ [][DepNext]_vars

C14_PrintedNameRollsBack ==
    (script = Rollback /\ arg \in {p.name : p \in printed}) =>
        failedAt \notin {"findDb", "findApp"}

----------------------------------------------------------------------------
(* The admin session monitor (AdminSessionManager).  Time is counted in     *)
(* seconds; a timer fires when its time is up, before the clock moves on.   *)

timeoutMinutes == 10
warningMinutes == 2
checkInterval == 30000
WARNING_REMOVE_MS == 30000
REDIRECT_MS == 3000

Seconds(ms) == ms \div 1000

\* a session test that already fires when the warning is due
Expired_AtWarning(since) == timeoutMinutes * 60 - since <= warningMinutes * 60

\* checkSessionTimeout: timeSinceActivity >= this.timeoutMinutes
Expired(since) == since >= timeoutMinutes * 60

\* checkSessionTimeout: the test before showTimeoutWarning
WarningDue(since, shown) ==
    LET timeUntilTimeout == timeoutMinutes * 60 - since
    IN timeUntilTimeout <= warningMinutes * 60 /\ timeUntilTimeout > 0 /\ ~shown

\* a page has loaded: new AdminSessionManager(), and init() on admin pages
AdmLoad ==
    /\ sinceActivity' = 0
    /\ nextCheck' = IF adminPage THEN Seconds(checkInterval) ELSE NoTimer
    /\ warningShown' = FALSE
    /\ warningModal' = FALSE
    /\ removeIn' = NoTimer
    /\ timeoutModal' = FALSE
    /\ redirectIn' = NoTimer
    /\ expiredIdle' = NoTimer

AdmInit ==
    /\ AdmParked
    /\ adminPage \in BOOLEAN
    /\ sinceActivity = 0
    /\ nextCheck = IF adminPage THEN Seconds(checkInterval) ELSE NoTimer
    /\ warningShown = FALSE
    /\ warningModal = FALSE
    /\ removeIn = NoTimer
    /\ timeoutModal = FALSE
    /\ redirectIn = NoTimer
    /\ expiredIdle = NoTimer
    /\ admEv = NoAdmEvent

Countdown(t) == IF t = NoTimer THEN NoTimer ELSE t - 1

\* one second passes; no timer is due
AdmTick ==
    /\ UNCHANGED admElsewhere
    /\ nextCheck # 0 /\ removeIn # 0 /\ redirectIn # 0
    /\ sinceActivity < MaxIdle
    /\ sinceActivity' = sinceActivity + 1
    /\ nextCheck' = Countdown(nextCheck)
    /\ removeIn' = Countdown(removeIn)
    /\ redirectIn' = Countdown(redirectIn)
    /\ admEv' = NoAdmEvent
    /\ UNCHANGED <<adminPage, warningShown, warningModal, timeoutModal, expiredIdle>>

\* the listener of setupActivityTracking: mousedown, mousemove, keypress,
\* scroll, touchstart or click
AdmActivity ==
    /\ UNCHANGED admElsewhere
    /\ adminPage
    /\ sinceActivity' = 0
    /\ warningShown' = FALSE
    /\ admEv' = [kind |-> "activity", idle |-> sinceActivity, checkIdle |-> expiredIdle]
    /\ UNCHANGED <<adminPage, nextCheck, warningModal, removeIn, timeoutModal, redirectIn,
                   expiredIdle>>

\* the setInterval callback: checkSessionTimeout, with showTimeoutWarning and
\* handleSessionTimeout
AdmCheck ==
    /\ UNCHANGED admElsewhere
    /\ adminPage
    /\ nextCheck = 0
    /\ nextCheck' = Seconds(checkInterval)
    /\ IF Expired(sinceActivity)
       THEN /\ warningModal' = FALSE
            /\ timeoutModal' = TRUE
            /\ redirectIn' = IF redirectIn = NoTimer THEN Seconds(REDIRECT_MS) ELSE redirectIn
            /\ expiredIdle' = IF redirectIn = NoTimer THEN sinceActivity ELSE expiredIdle
            /\ UNCHANGED <<warningShown, removeIn>>
       ELSE IF WarningDue(sinceActivity, warningShown)
       THEN /\ warningModal' = TRUE
            /\ removeIn' = Seconds(WARNING_REMOVE_MS)
            /\ warningShown' = TRUE
            /\ UNCHANGED <<timeoutModal, redirectIn, expiredIdle>>
       ELSE UNCHANGED <<warningShown, warningModal, removeIn, timeoutModal, redirectIn,
                        expiredIdle>>
    /\ admEv' = [kind |-> "check", idle |-> sinceActivity, checkIdle |-> expiredIdle']
    /\ UNCHANGED <<adminPage, sinceActivity>>

\* the setTimeout of showTimeoutWarning removes the warning
AdmRemoveWarning ==
    /\ UNCHANGED admElsewhere
    /\ removeIn = 0
    /\ removeIn' = NoTimer
    /\ warningModal' = FALSE
    /\ admEv' = [kind |-> "remove", idle |-> sinceActivity, checkIdle |-> expiredIdle]
    /\ UNCHANGED <<adminPage, sinceActivity, nextCheck, warningShown, timeoutModal,
                   redirectIn, expiredIdle>>

\* the setTimeout of handleSessionTimeout: window.location.href = '/admin/login'
AdmRedirect ==
    /\ UNCHANGED admElsewhere
    /\ redirectIn = 0
    /\ admEv' = [kind |-> "redirect", idle |-> sinceActivity, checkIdle |-> expiredIdle]
    /\ AdmLoad
    /\ UNCHANGED adminPage

\* the 'Extend Session' button of the warning: the click is an activity, then
\* location.reload()
AdmExtendSession ==
    /\ UNCHANGED admElsewhere
    /\ warningModal
    /\ admEv' = [kind |-> "reload", idle |-> sinceActivity, checkIdle |-> expiredIdle]
    /\ AdmLoad
    /\ UNCHANGED adminPage

\* the 'Dismiss' button of the warning: the click is an activity
AdmDismiss ==
    /\ UNCHANGED admElsewhere
    /\ warningModal
    /\ warningModal' = FALSE
    /\ sinceActivity' = 0
    /\ warningShown' = FALSE
    /\ admEv' = [kind |-> "dismiss", idle |-> sinceActivity, checkIdle |-> expiredIdle]
    /\ UNCHANGED <<adminPage, nextCheck, removeIn, timeoutModal, redirectIn, expiredIdle>>

\* the 'Login Again' button of the expired modal
AdmLoginAgain ==
    /\ UNCHANGED admElsewhere
    /\ timeoutModal
    /\ admEv' = [kind |-> "login", idle |-> sinceActivity, checkIdle |-> expiredIdle]
    /\ AdmLoad
    /\ UNCHANGED adminPage

AdmNext ==
    \/ AdmTick
    \/ AdmActivity
    \/ AdmCheck
    \/ AdmRemoveWarning
    \/ AdmRedirect
    \/ AdmExtendSession
    \/ AdmDismiss
    \/ AdmLoginAgain

SpecAdmin == AdmInit /\ [][AdmNext]_vars

\* the longest inactivity a page can show: the timeout, one check interval and
\* the delay of the redirect
LatestRedirect == timeoutMinutes * 60 + Seconds(checkInterval) + Seconds(REDIRECT_MS)

\* C22 as stated: the redirect timer sends the browser to /admin/login only
\* after 10 minutes without activity, and inactivity never lasts longer than
\* 10 minutes plus one check interval plus 3 seconds
C22_RedirectOnlyAfterInactivity ==
    /\ admEv.kind = "redirect" => Expired(admEv.idle)
    /\ adminPage => sinceActivity <= LatestRedirect

\* C22 amended: the redirect timer sends the browser to /admin/login only on
\* admin pages, 3 seconds after a check that measured 10 minutes or more
\* without activity; either no activity happened in those 3 seconds or the
\* last one is at most 3 seconds old; inactivity never lasts longer than 10
\* minutes plus one check interval plus 3 seconds, and a page that is not an
\* admin page sets no timer
C22_RedirectFollowsExpiredCheck ==
    /\ admEv.kind = "redirect" =>
          /\ adminPage
          /\ admEv.checkIdle >= timeoutMinutes * 60
          /\ \/ admEv.idle = admEv.checkIdle + Seconds(REDIRECT_MS)
             \/ admEv.idle <= Seconds(REDIRECT_MS)
    /\ adminPage => sinceActivity <= LatestRedirect
    /\ ~adminPage => (nextCheck = NoTimer /\ redirectIn = NoTimer)

\* a redirect after inactivity that reached 10 minutes between two checks
C22_Witness ==
    /\ admEv.kind = "redirect"
    /\ admEv.idle > timeoutMinutes * 60 + Seconds(REDIRECT_MS)

====
